---- MODULE Spec2Model ----
(***************************************************************************)
(* MonkeySeeMonkeyDrum: the MidiManager (src/midi/midi_manager.py) and the *)
(* MainWindow slots that drive it (src/gui/main_window.py).                *)
(*                                                                         *)
(* The device layer (mido) is the environment: every open, close, send and *)
(* port listing either succeeds or raises, chosen nondeterministically.    *)
(* The main thread runs MidiManager methods and MainWindow slots, one call *)
(* at a time; the device's callback thread runs _handle_input_message,     *)
(* which is split at the point where it reads self.input_callback the      *)
(* second time, so that main-thread calls interleave with it.              *)
(***************************************************************************)
EXTENDS Integers, Sequences, FiniteSets

\* ---------------------------------------------------------------- bounds
MaxPorts == 2        \* ports the device layer hands out in one run
MaxSent == 1         \* MIDI messages accepted by the output in one run

\* ------------------------------------------------------------- constants
None == "None"                         \* Python's None
PortNames == {"A", "B"}                \* names of ports that exist on the device
Names == PortNames \cup {""}           \* what a caller may pass as `name`
OutputPlaceholders == {"Select MIDI Output", "No MIDI outputs"}
InputPlaceholders == {"Select MIDI Input", "No MIDI inputs"}
\* callables a client may register: one that prints the message, one that
\* does nothing visible, one that raises
Callbacks == {"cbPrint", "cbQuiet", "cbRaise"}

VARIABLES
    ports,                \* every port object mido has returned: <<[kind, state]>>, a handle is its index
    current_output,       \* handle, 0 for None
    current_output_name,
    current_input,        \* handle, 0 for None
    current_input_name,
    input_callback,
    sent,                 \* messages the output device accepted
    lastOp,               \* the last completed MidiManager call and how it ended
    placeholder_label,
    record_button_text,
    record_checked,       \* the checkable Record button's state
    hpc,                  \* position of the callback thread in _handle_input_message
    hport,                \* port whose message the callback thread is handling
    handled,              \* how the last finished _handle_input_message ended
    thread_error          \* an exception left _handle_input_message

mgrVars == <<ports, current_output, current_output_name, current_input,
             current_input_name, input_callback, sent, lastOp>>
guiVars == <<placeholder_label, record_button_text, record_checked>>
threadVars == <<hpc, hport, handled, thread_error>>
vars == <<mgrVars, guiVars, threadVars>>

Label(text, name) == [text |-> text, name |-> name]

\* a completed call: `failed`: the device layer raised in it or the name was
\* empty; `hadPort`: a port was selected when it began; `ret`: what it returned;
\* `raised`: it ended by propagating an exception to its caller
Op(op, failed, hadPort, ret, raised) ==
    [op |-> op, failed |-> failed, hadPort |-> hadPort, ret |-> ret, raised |-> raised]

\* a close that is never made
ClosePort_Skipped(ps, h, ok) == ps

\* port.close(): the port is closed, or close() raised and the port may
\* still be open at the device
ClosePort(ps, h, ok) ==
    [ps EXCEPT ![h].state = IF ok THEN "closed" ELSE "close_failed"]

\* mido.open_output(name) / mido.open_input(name, callback=...): a new port object
OpenPort(ps, kind) == Append(ps, [kind |-> kind, state |-> "open"])

Init ==
    /\ ports = <<>>
    /\ current_output = 0
    /\ current_output_name = None
    /\ current_input = 0
    /\ current_input_name = None
    /\ input_callback = None
    /\ sent = 0
    /\ lastOp = Op("__init__", FALSE, FALSE, None, FALSE)
    /\ placeholder_label = Label("Drum MIDI App", None)
    /\ record_button_text = "Record"
    /\ record_checked = FALSE
    /\ hpc = "idle"
    /\ hport = 0
    /\ handled = [port |-> 0, outcome |-> "none", printed |-> FALSE]
    /\ thread_error = FALSE

\* ------------------------------------------------------------ MidiManager

list_output_ports(ok) ==
    /\ lastOp' = Op("list_output_ports", ~ok, FALSE,
                    IF ok THEN "ports" ELSE "[]", FALSE)
    /\ UNCHANGED <<ports, current_output, current_output_name, current_input,
                   current_input_name, input_callback, sent>>

list_input_ports(ok) ==
    /\ lastOp' = Op("list_input_ports", ~ok, FALSE,
                    IF ok THEN "ports" ELSE "[]", FALSE)
    /\ UNCHANGED <<ports, current_output, current_output_name, current_input,
                   current_input_name, input_callback, sent>>

\* select_output with the empty-name return placed before the close block
select_output_EarlyReturn(name, openOk, closeOk) ==
    LET had == current_output # 0
        failed == (name = "" \/ ~openOk)
        ps1 == IF had THEN ClosePort(ports, current_output, closeOk) ELSE ports
    IN  /\ (name # "" /\ openOk) => Len(ports) < MaxPorts
        /\ IF name = ""
           THEN /\ UNCHANGED <<ports, current_output, current_output_name>>
                /\ lastOp' = Op("select_output", failed, had, "False", FALSE)
           ELSE IF openOk
           THEN /\ ports' = OpenPort(ps1, "out")
                /\ current_output' = Len(ps1) + 1
                /\ current_output_name' = name
                /\ lastOp' = Op("select_output", failed, had, "True", FALSE)
           ELSE /\ ports' = ps1
                /\ current_output' = 0
                /\ current_output_name' = None
                /\ lastOp' = Op("select_output", failed, had, "False", FALSE)
        /\ UNCHANGED <<current_input, current_input_name, input_callback, sent>>

select_output(name, openOk, closeOk) ==
    LET had == current_output # 0
        failed == (name = "" \/ ~openOk)
        ps1 == IF had THEN ClosePort(ports, current_output, closeOk) ELSE ports
    IN  /\ (name # "" /\ openOk) => Len(ports) < MaxPorts
        /\ IF name = ""
           THEN /\ ports' = ps1
                /\ current_output' = 0
                /\ current_output_name' = None
                /\ lastOp' = Op("select_output", failed, had, "False", FALSE)
           ELSE IF openOk
           THEN /\ ports' = OpenPort(ps1, "out")
                /\ current_output' = Len(ps1) + 1
                /\ current_output_name' = name
                /\ lastOp' = Op("select_output", failed, had, "True", FALSE)
           ELSE /\ ports' = ps1
                /\ current_output' = 0
                /\ current_output_name' = None
                /\ lastOp' = Op("select_output", failed, had, "False", FALSE)
        /\ UNCHANGED <<current_input, current_input_name, input_callback, sent>>

send_test_note(sendOk) ==
    /\ IF current_output = 0
       THEN /\ sent' = sent
            /\ lastOp' = Op("send_test_note", FALSE, FALSE, None, FALSE)
       ELSE IF sendOk
       THEN /\ sent < MaxSent
            /\ sent' = sent + 1
            /\ lastOp' = Op("send_test_note", FALSE, TRUE, None, FALSE)
       ELSE \* current_output.send raises; nothing catches it
            /\ sent' = sent
            /\ lastOp' = Op("send_test_note", TRUE, TRUE, None, TRUE)
    /\ UNCHANGED <<ports, current_output, current_output_name, current_input,
                   current_input_name, input_callback>>

send_message(sendOk) ==
    /\ IF current_output = 0
       THEN /\ sent' = sent
            /\ lastOp' = Op("send_message", FALSE, FALSE, None, FALSE)
       ELSE IF sendOk
       THEN /\ sent < MaxSent
            /\ sent' = sent + 1
            /\ lastOp' = Op("send_message", FALSE, TRUE, None, FALSE)
       ELSE \* current_output.send raises; nothing catches it
            /\ sent' = sent
            /\ lastOp' = Op("send_message", TRUE, TRUE, None, TRUE)
    /\ UNCHANGED <<ports, current_output, current_output_name, current_input,
                   current_input_name, input_callback>>

select_input(name, callback, openOk, closeOk) ==
    LET had == current_input # 0
        failed == (name = "" \/ ~openOk)
        ps1 == IF had THEN ClosePort(ports, current_input, closeOk) ELSE ports
        \* input_callback after the "close any existing port" block
        cb1 == IF had THEN None ELSE input_callback
    IN  /\ (name # "" /\ openOk) => Len(ports) < MaxPorts
        /\ IF name = ""
           THEN /\ ports' = ps1
                /\ current_input' = 0
                /\ current_input_name' = None
                /\ input_callback' = cb1
                /\ lastOp' = Op("select_input", failed, had, "False", FALSE)
           ELSE IF openOk
           THEN /\ ports' = OpenPort(ps1, "in")
                /\ current_input' = Len(ps1) + 1
                /\ current_input_name' = name
                /\ input_callback' = callback
                /\ lastOp' = Op("select_input", failed, had, "True", FALSE)
           ELSE /\ ports' = ps1
                /\ current_input' = 0
                /\ current_input_name' = None
                /\ input_callback' = None
                /\ lastOp' = Op("select_input", failed, had, "False", FALSE)
        /\ UNCHANGED <<current_output, current_output_name, sent>>

\* close_all that forgets to reset current_input_name
close_all_KeepsInputName(closeOutOk, closeInOk) ==
    LET hadOut == current_output # 0
        hadIn == current_input # 0
        ps1 == IF hadOut THEN ClosePort(ports, current_output, closeOutOk) ELSE ports
        ps2 == IF hadIn THEN ClosePort(ps1, current_input, closeInOk) ELSE ps1
    IN  /\ ports' = ps2
        /\ current_output' = 0
        /\ current_output_name' = None
        /\ current_input' = 0
        /\ lastOp' = Op("close_all", (hadOut /\ ~closeOutOk) \/ (hadIn /\ ~closeInOk),
                        hadOut \/ hadIn, None, FALSE)
        /\ UNCHANGED <<current_input_name, input_callback, sent>>

close_all(closeOutOk, closeInOk) ==
    LET hadOut == current_output # 0
        hadIn == current_input # 0
        ps1 == IF hadOut THEN ClosePort(ports, current_output, closeOutOk) ELSE ports
        ps2 == IF hadIn THEN ClosePort(ps1, current_input, closeInOk) ELSE ps1
    IN  /\ ports' = ps2
        /\ current_output' = 0
        /\ current_output_name' = None
        /\ current_input' = 0
        /\ current_input_name' = None
        /\ lastOp' = Op("close_all", (hadOut /\ ~closeOutOk) \/ (hadIn /\ ~closeInOk),
                        hadOut \/ hadIn, None, FALSE)
        \* input_callback is not reset by close_all
        /\ UNCHANGED <<input_callback, sent>>

\* --------------------------------------------- device callback thread

\* _handle_input_message up to and including `if self.input_callback is not None`
handle_input_message_check(p) ==
    /\ hpc = "idle"
    /\ ports[p].kind = "in"
    /\ ports[p].state # "closed"
    /\ IF input_callback = None
       THEN /\ hpc' = "idle"
            /\ hport' = 0
            /\ handled' = [port |-> p, outcome |-> "no_callback", printed |-> FALSE]
       ELSE /\ hpc' = "call"
            /\ hport' = p
            /\ handled' = handled
    /\ UNCHANGED thread_error

\* the call made outside any try block
CallOutcome_NoTry(cb) ==
    CASE cb = None      -> [outcome |-> "type_error", printed |-> FALSE, escaped |-> TRUE]
      [] cb = "cbRaise" -> [outcome |-> "callback_error", printed |-> FALSE, escaped |-> TRUE]
      [] cb = "cbPrint" -> [outcome |-> "called", printed |-> TRUE, escaped |-> FALSE]
      [] OTHER          -> [outcome |-> "called", printed |-> FALSE, escaped |-> FALSE]

\* what `self.input_callback(message, ts)` inside the try block does: the
\* attribute is read again; calling None raises TypeError
CallOutcome(cb) ==
    CASE cb = None      -> [outcome |-> "type_error_caught", printed |-> FALSE, escaped |-> FALSE]
      [] cb = "cbRaise" -> [outcome |-> "callback_error_caught", printed |-> FALSE, escaped |-> FALSE]
      [] cb = "cbPrint" -> [outcome |-> "called", printed |-> TRUE, escaped |-> FALSE]
      [] OTHER          -> [outcome |-> "called", printed |-> FALSE, escaped |-> FALSE]

\* the try/except around the call
handle_input_message_call ==
    /\ hpc = "call"
    /\ LET r == CallOutcome(input_callback)
       IN  /\ handled' = [port |-> hport, outcome |-> r.outcome, printed |-> r.printed]
           /\ thread_error' = (thread_error \/ r.escaped)
    /\ hpc' = "idle"
    /\ hport' = 0

\* ------------------------------------------------------------- MainWindow

\* a Play slot that also fires the test note
on_play_clicked_SendsNote ==
    /\ placeholder_label' = Label("Play clicked", None)
    /\ UNCHANGED <<record_button_text, record_checked>>
    /\ send_test_note(TRUE)

on_play_clicked ==
    /\ placeholder_label' = Label("Play clicked", None)
    /\ UNCHANGED <<record_button_text, record_checked>>
    /\ UNCHANGED mgrVars

on_stop_clicked ==
    /\ placeholder_label' = Label("Stop clicked", None)
    /\ UNCHANGED <<record_button_text, record_checked>>
    /\ UNCHANGED mgrVars

\* record_button.toggled(checked): the checkable button flips and passes its new state
on_record_toggled(checked) ==
    /\ checked = ~record_checked
    /\ record_checked' = checked
    /\ IF checked
       THEN /\ record_button_text' = "Recording..."
            /\ placeholder_label' = Label("Recording...", None)
       ELSE /\ record_button_text' = "Record"
            /\ placeholder_label' = Label("Recording stopped", None)
    /\ UNCHANGED mgrVars

on_output_changed(name, openOk, closeOk) ==
    IF name = "" \/ name \in OutputPlaceholders
    THEN UNCHANGED <<mgrVars, guiVars>>
    ELSE /\ select_output(name, openOk, closeOk)
         /\ placeholder_label' =
                IF lastOp'.ret = "True" THEN Label("Selected MIDI output", name)
                ELSE Label("Failed to open MIDI output", name)
         /\ UNCHANGED <<record_button_text, record_checked>>

on_input_changed(name, openOk, closeOk) ==
    IF name = "" \/ name \in InputPlaceholders
    THEN UNCHANGED <<mgrVars, guiVars>>
    ELSE /\ select_input(name, None, openOk, closeOk)
         /\ placeholder_label' =
                IF lastOp'.ret = "True" THEN Label("Selected MIDI input", name)
                ELSE Label("Failed to open MIDI input", name)
         /\ UNCHANGED <<record_button_text, record_checked>>

on_test_note_clicked(sendOk) ==
    IF current_output = 0
    THEN /\ placeholder_label' = Label("No MIDI output selected.", None)
         /\ UNCHANGED <<record_button_text, record_checked>>
         /\ UNCHANGED mgrVars
    ELSE /\ send_test_note(sendOk)
         \* the slot does not catch: when send raises, the label is not updated
         /\ placeholder_label' =
                IF lastOp'.raised THEN placeholder_label
                ELSE Label("Sent test drum note.", None)
         /\ UNCHANGED <<record_button_text, record_checked>>

\* _refresh_midi_outputs, _refresh_midi_inputs and _log_available_midi_ports
\* call list_output_ports and list_input_ports, which change nothing but the
\* record of the last call; the last of them is list_input_ports
on_refresh_midi_clicked(inOk) ==
    /\ list_input_ports(inOk)
    /\ placeholder_label' = Label("Refreshed MIDI ports.", None)
    /\ UNCHANGED <<record_button_text, record_checked>>

\* MidiManager used as a library: any client calls its methods, the device
\* thread delivers messages
NextMgr ==
    \/ \E ok \in BOOLEAN : list_output_ports(ok) /\ UNCHANGED <<guiVars, threadVars>>
    \/ \E ok \in BOOLEAN : list_input_ports(ok) /\ UNCHANGED <<guiVars, threadVars>>
    \/ \E name \in Names, openOk, closeOk \in BOOLEAN :
          select_output(name, openOk, closeOk) /\ UNCHANGED <<guiVars, threadVars>>
    \/ \E name \in Names, cb \in Callbacks \cup {None}, openOk, closeOk \in BOOLEAN :
          select_input(name, cb, openOk, closeOk) /\ UNCHANGED <<guiVars, threadVars>>
    \/ \E sendOk \in BOOLEAN : send_test_note(sendOk) /\ UNCHANGED <<guiVars, threadVars>>
    \/ \E sendOk \in BOOLEAN : send_message(sendOk) /\ UNCHANGED <<guiVars, threadVars>>
    \/ \E co, ci \in BOOLEAN : close_all(co, ci) /\ UNCHANGED <<guiVars, threadVars>>
    \/ \E p \in 1..Len(ports) : handle_input_message_check(p) /\ UNCHANGED <<mgrVars, guiVars>>
    \/ handle_input_message_call /\ UNCHANGED <<mgrVars, guiVars>>

Spec == Init /\ [][NextMgr]_vars

\* the application: the user drives MainWindow's slots, the device thread
\* delivers messages. The window registers no callback, so the handler always
\* ends at its None check.
NextGui ==
    \/ on_play_clicked /\ UNCHANGED threadVars
    \/ on_stop_clicked /\ UNCHANGED threadVars
    \/ \E checked \in BOOLEAN : on_record_toggled(checked) /\ UNCHANGED threadVars
    \/ \E name \in PortNames \cup OutputPlaceholders, openOk, closeOk \in BOOLEAN :
          on_output_changed(name, openOk, closeOk) /\ UNCHANGED threadVars
    \/ \E name \in PortNames \cup InputPlaceholders, openOk, closeOk \in BOOLEAN :
          on_input_changed(name, openOk, closeOk) /\ UNCHANGED threadVars
    \/ \E sendOk \in BOOLEAN : on_test_note_clicked(sendOk) /\ UNCHANGED threadVars
    \/ \E inOk \in BOOLEAN : on_refresh_midi_clicked(inOk) /\ UNCHANGED threadVars
    \/ \E p \in 1..Len(ports) : handle_input_message_check(p) /\ UNCHANGED <<mgrVars, guiVars>>

SpecGui == Init /\ [][NextGui]_vars

\* ------------------------------------------------------------ properties

Handles == 1..Len(ports)

\* C1: after a select_output / select_input whose open failed (the device
\* layer raised, or the name was empty) the call has returned False and the
\* port and its name are both None, whether or not a port was selected before.
C1_FailedSelectLeavesUnselected ==
    /\ (lastOp.op = "select_output" /\ lastOp.failed) =>
          (lastOp.ret = "False" /\ current_output = 0 /\ current_output_name = None)
    /\ (lastOp.op = "select_input" /\ lastOp.failed) =>
          (lastOp.ret = "False" /\ current_input = 0 /\ current_input_name = None)

\* C1 witness: a select_output that failed while a port was selected
C1_Witness == lastOp.op = "select_output" /\ lastOp.failed /\ lastOp.hadPort

\* C2 (as claimed): no public MidiManager operation ends by propagating a
\* device failure to its caller.
C2_NoOperationRaises == ~lastOp.raised

\* C3 (as claimed): a message delivered by the input port the 'In' dropdown
\* selected, while that port is still the current input, has been printed.
C3_DeliveredMessagePrinted ==
    (handled.port # 0 /\ handled.port = current_input) => handled.printed

TransportTexts == {"Play clicked", "Stop clicked", "Recording...", "Recording stopped"}

\* C4: a step in which the Play, Stop or Record slot rewrites the label
\* leaves the whole MidiManager state (ports, handles, names, callback, the
\* count of sent messages, the record of the last call) unchanged.
C4_TransportSlotsLeaveManagerAlone ==
    [][(placeholder_label'.text \in TransportTexts /\ placeholder_label' # placeholder_label)
          => UNCHANGED mgrVars]_vars

\* C4 witness: a transport slot has run while both ports were selected
C4_Witness ==
    /\ placeholder_label.text \in TransportTexts
    /\ current_output # 0
    /\ current_input # 0

\* C5 (as claimed): while the window shows Play clicked (no Stop since) and
\* recording is off, no step turns recording on.
C5_RecordRejectedWhilePlaying ==
    [][(placeholder_label.text = "Play clicked" /\ ~record_checked)
          => (~record_checked' /\ record_button_text' = "Record")]_vars

\* C6 (as claimed): every port that was opened is closed or is still the
\* current output or input.
C6_NoPortLeftBehind ==
    \A p \in Handles : ports[p].state # "closed" => p \in {current_output, current_input}

\* C6 (amended): every port that is no longer referenced has had close()
\* called on it: it is closed, or its close() raised; so the ports that are
\* open without a failed close are at most the current output and input.
C6_DroppedPortsWereClosed ==
    /\ \A p \in Handles : ports[p].state = "open" => p \in {current_output, current_input}
    /\ \A p, q \in Handles :
          (ports[p].state = "open" /\ ports[q].state = "open" /\ ports[p].kind = ports[q].kind)
             => p = q

\* C6 witness: an input port whose close() raised was replaced by a new one
C6_Witness ==
    \E p, q \in Handles :
        /\ ports[p].kind = "in" /\ ports[p].state = "close_failed"
        /\ q = current_input /\ ports[q].state = "open"

\* C7: no exception leaves _handle_input_message on the callback thread.
C7_HandlerNeverPropagates == thread_error = FALSE

\* C7 witness: the main thread reset input_callback between the handler's
\* None check and its call, and the handler finished
C7_Witness == handled.outcome = "type_error_caught" /\ hpc = "idle"

\* C8: a handle is None exactly when its recorded name is None.
C8_HandleAndNameAgree ==
    /\ (current_output = 0) <=> (current_output_name = None)
    /\ (current_input = 0) <=> (current_input_name = None)

\* C8 witness: close_all ran with ports selected and a close() that raised
C8_Witness == lastOp.op = "close_all" /\ lastOp.hadPort /\ lastOp.failed
====
